---- MODULE Spec2Model ----
(***************************************************************************)
(* Model of run.py, the RideEasy one-click compile-and-run script.         *)
(*                                                                         *)
(* main() is a single sequential pipeline that blocks twice on a child     *)
(* process (the compiler, then the built artifact).  The model follows     *)
(* main() statement by statement and splits it where it waits on the       *)
(* environment: the working directory, the search path, the host platform  *)
(* and the behaviour of the two children are the inputs.                   *)
(***************************************************************************)
EXTENDS Integers, Sequences, FiniteSets, TLC

VARIABLES
    pc,          \* position of the process inside main()
    fs,          \* working directory: file name -> "absent" | "stale" | "fresh"
    path,        \* executables shutil.which finds on the search path
    plat,        \* platform.system()
    compiler,    \* main's local `compiler`
    exe_name,    \* main's local `exe_name`
    cmd,         \* compile_project's local `cmd`
    log,         \* lines printed so far by this process
    exitCode,    \* value main() returned
    stages,      \* pipeline stages entered by this process, in order
    probed,      \* names handed to shutil.which, in order
    launched,    \* argv[0] of every subprocess.run call, in order
    children,    \* child processes alive (spawned and not yet reaped)
    elapsed,     \* seconds the compiler child has been running
    buildResult, \* how subprocess.run ended in compile_project
    runResult,   \* how subprocess.run ended in run_executable
    ran,         \* content of the artifact the Run stage executed
    ncalls,      \* calls of clean_build made by this process
    runs,        \* invocations of the script so far
    prevCompiler \* what the previous invocation's check_compiler returned

vars == <<pc, fs, path, plat, compiler, exe_name, cmd, log, exitCode, stages,
          probed, launched, children, elapsed, buildResult, runResult, ran,
          ncalls, runs, prevCompiler>>

----------------------------------------------------------------------------
(* Bounds *)

MaxRuns == 2          \* invocations of the script in one behaviour
MaxRetCode == 2       \* child exit codes range over 0..MaxRetCode
MaxCleanCalls == 2    \* consecutive clean_build calls in SpecClean

----------------------------------------------------------------------------
(* Program constants *)

None == "None"

required_files == <<"main.cpp", "User.h", "RideManager.h">>

files_to_remove == <<"rideeasy.exe", "rideeasy", "a.out">>

compilers == <<"g++", "clang++">>

timeout == 30

Platforms == {"Windows", "Linux", "Darwin"}

static_flags == <<"-static-libgcc", "-static-libstdc++">>

Range(s) == {s[i] : i \in DOMAIN s}

FileNames == Range(required_files) \cup Range(files_to_remove)

RetCodes == 0..MaxRetCode

----------------------------------------------------------------------------
(* Strings.  TLA+ strings are atomic, so the text of a compiler name is    *)
(* spelled out for the substring test of compile_project.                 *)

Chars(s) ==
    CASE s = "g++"     -> <<"g", "+", "+">>
      [] s = "clang++" -> <<"c", "l", "a", "n", "g", "+", "+">>

\* Python's `sub in s` on strings: sub occurs as a contiguous slice of s.
StrIn(sub, s) ==
    \E i \in 0..(Len(s) - Len(sub)) :
        \A k \in 1..Len(sub) : s[i + k] = sub[k]

----------------------------------------------------------------------------
(* Filesystem and search path *)

\* os.path.exists(f)
exists(dir, f) == dir[f] # "absent"

\* shutil.which(name): truthy iff name is found on the search path
which(name, p) == name \in p

----------------------------------------------------------------------------
(* Exceptions: the classes subprocess.run can raise here and the handler   *)
(* clauses of the two try statements.                                      *)

Base(cls) ==
    CASE cls = "TimeoutExpired"      -> "SubprocessError"
      [] cls = "CalledProcessError"  -> "SubprocessError"
      [] cls = "SubprocessError"     -> "Exception"
      [] cls = "OSError"             -> "Exception"
      [] cls = "Exception"           -> "BaseException"
      [] cls = "KeyboardInterrupt"   -> "BaseException"
      [] cls = "BaseException"       -> "object"

RECURSIVE IsInstance(_, _)
IsInstance(exc, cls) ==
    IF exc = cls THEN TRUE
    ELSE IF exc = "object" THEN FALSE
    ELSE IsInstance(Base(exc), cls)

\* Variant: no clause for TimeoutExpired.
compile_handlers_generic == <<"Exception">>

compile_handlers == <<"TimeoutExpired", "Exception">>

\* Variant: no clause for KeyboardInterrupt.
run_handlers_no_interrupt == <<"CalledProcessError", "Exception">>

run_handlers == <<"CalledProcessError", "KeyboardInterrupt", "Exception">>

\* The first except clause that matches, or None when the exception
\* propagates out of the try statement.
Handler(handlers, exc) ==
    IF \E i \in DOMAIN handlers : IsInstance(exc, handlers[i])
    THEN handlers[CHOOSE i \in DOMAIN handlers :
                     /\ IsInstance(exc, handlers[i])
                     /\ \A j \in 1..(i - 1) : ~IsInstance(exc, handlers[j])]
    ELSE None

----------------------------------------------------------------------------
(* main(): Preflight *)

\* Variant: the scan stops at the first absent file.
missing_files_first(dir) ==
    LET all == SelectSeq(required_files, LAMBDA f : ~exists(dir, f)) IN
    IF all = <<>> THEN <<>> ELSE <<all[1]>>

missing_files(dir) == SelectSeq(required_files, LAMBDA f : ~exists(dir, f))

Preflight ==
    /\ pc = "main"
    /\ stages' = Append(stages, "Preflight")
    /\ IF missing_files(fs) # <<>>
       THEN /\ log' = Append(log, <<"Missing required files", missing_files(fs)>>)
            /\ pc' = "returned"
            /\ exitCode' = 1
       ELSE /\ pc' = "clean_build"
            /\ UNCHANGED <<log, exitCode>>
    /\ UNCHANGED <<fs, path, plat, compiler, exe_name, cmd, probed, launched,
                   children, elapsed, buildResult, runResult, ran, ncalls,
                   runs, prevCompiler>>

----------------------------------------------------------------------------
(* clean_build() *)

\* The loop over files_to_remove[i..], from directory dir and output out.
RECURSIVE clean_loop(_, _, _)
clean_loop(i, dir, out) ==
    IF i > Len(files_to_remove) THEN [fs |-> dir, log |-> out]
    ELSE LET file == files_to_remove[i] IN
         IF exists(dir, file)
         THEN clean_loop(i + 1, [dir EXCEPT ![file] = "absent"],
                         Append(out, <<"Cleaned", file>>))
         ELSE clean_loop(i + 1, dir, out)

\* Variant: the loop starts at the second name.
clean_build_skip_first(dir, out) == clean_loop(2, dir, out)

\* Variant: the log line is printed for every name, removed or not.
clean_build_log_all(dir, out) ==
    [fs  |-> clean_loop(1, dir, out).fs,
     log |-> out \o [i \in DOMAIN files_to_remove |->
                        <<"Cleaned", files_to_remove[i]>>]]

clean_build(dir, out) == clean_loop(1, dir, out)

CleanBuild ==
    /\ pc = "clean_build"
    /\ stages' = Append(stages, "Clean")
    /\ LET r == clean_build(fs, log) IN
         /\ fs' = r.fs
         /\ log' = r.log
    /\ ncalls' = ncalls + 1
    /\ pc' = "check_compiler"
    /\ UNCHANGED <<path, plat, compiler, exe_name, cmd, exitCode, probed,
                   launched, children, elapsed, buildResult, runResult, ran,
                   runs, prevCompiler>>

----------------------------------------------------------------------------
(* check_compiler() *)

RECURSIVE check_loop(_, _)
check_loop(i, p) ==
    IF i > Len(compilers)
    THEN [result |-> None, probed |-> compilers,
          out |-> <<<<"No C++ compiler found!">>>>]
    ELSE IF which(compilers[i], p)
         THEN [result |-> compilers[i], probed |-> SubSeq(compilers, 1, i),
               out |-> <<<<"Found compiler", compilers[i]>>>>]
         ELSE check_loop(i + 1, p)

\* Variant: the first candidate is returned when none is found.
check_compiler_fallback(p) ==
    LET r == check_loop(1, p) IN
    IF r.result = None THEN [r EXCEPT !.result = compilers[1]] ELSE r

\* Variant: the last candidate found wins.
check_compiler_last(p) ==
    LET found == {i \in DOMAIN compilers : which(compilers[i], p)} IN
    IF found = {} THEN check_loop(1, p)
    ELSE LET i == CHOOSE k \in found : \A j \in found : j <= k IN
         [result |-> compilers[i], probed |-> compilers,
          out |-> <<<<"Found compiler", compilers[i]>>>>]

check_compiler(p) == check_loop(1, p)

CheckCompiler ==
    /\ pc = "check_compiler"
    /\ stages' = Append(stages, "Resolver")
    /\ LET r == check_compiler(path) IN
         /\ compiler' = r.result
         /\ probed' = probed \o r.probed
         /\ log' = log \o r.out
         /\ IF r.result = None
            THEN /\ pc' = "returned"
                 /\ exitCode' = 1
            ELSE /\ pc' = "compile_project"
                 /\ UNCHANGED exitCode
    /\ UNCHANGED <<fs, path, plat, exe_name, cmd, launched, children, elapsed,
                   buildResult, runResult, ran, ncalls, runs, prevCompiler>>

----------------------------------------------------------------------------
(* compile_project(compiler) *)

platform_exe_name(p) == IF p = "Windows" THEN "rideeasy.exe" ELSE "rideeasy"

build_cmd(c, p) ==
    <<c, "-std=c++17", "-Wall", "-Wextra", "-O2", "-I.", "main.cpp",
      "-o", platform_exe_name(p)>>
    \o (IF p = "Windows" /\ StrIn(Chars("g++"), Chars(c))
        THEN static_flags ELSE <<>>)

\* The file the compiler writes: the token that follows "-o".
OutputOf(c) == c[(CHOOSE i \in DOMAIN c : c[i] = "-o") + 1]

\* The except clauses of compile_project: what is printed and returned for
\* an exception raised by subprocess.run, or that it propagates.
compile_except(exc) ==
    LET h == Handler(compile_handlers, exc) IN
    CASE h = "TimeoutExpired" ->
            [caught |-> TRUE, out |-> <<<<"Compilation timed out!">>>>, ret |-> None]
      [] h = "Exception" ->
            [caught |-> TRUE, out |-> <<<<"Compilation error", exc>>>>, ret |-> None]
      [] h = None ->
            [caught |-> FALSE, out |-> <<>>, ret |-> None]

\* main, lines 133-135: exe_name = compile_project(compiler); if not exe_name: return 1
MainAfterCompile(ret) ==
    /\ exe_name' = ret
    /\ IF ret = None
       THEN /\ pc' = "returned"
            /\ exitCode' = 1
       ELSE /\ pc' = "run_executable"
            /\ UNCHANGED exitCode

\* An exception left compile_project, hence main, uncaught.
MainRaised ==
    /\ pc' = "raised"
    /\ UNCHANGED exitCode

CompileRaise(exc, out) ==
    LET r == compile_except(exc) IN
    /\ buildResult' = exc
    /\ log' = out \o r.out
    /\ IF r.caught THEN MainAfterCompile(r.ret)
                   ELSE MainRaised /\ UNCHANGED exe_name

\* Lines 45-69 up to the creation of the child: the command is built,
\* printed and handed to subprocess.run, which starts the compiler or fails
\* to (OSError).
CompileSpawn ==
    /\ pc = "compile_project"
    /\ stages' = Append(stages, "Build")
    /\ cmd' = build_cmd(compiler, plat)
    /\ launched' = Append(launched, cmd'[1])
    /\ LET out == log \o <<<<"Compiling with", compiler>>, <<"Command", cmd'>>>> IN
       \E started \in BOOLEAN :
          IF started
          THEN /\ children' = children \cup {"compiler"}
               /\ elapsed' = 0
               /\ log' = out
               /\ pc' = "compile_wait"
               /\ UNCHANGED <<exe_name, exitCode, buildResult>>
          ELSE /\ CompileRaise("OSError", out)
               /\ UNCHANGED <<children, elapsed>>
    /\ UNCHANGED <<fs, path, plat, compiler, probed, runResult, ran, ncalls,
                   runs, prevCompiler>>

\* One second passes while subprocess.run waits for the compiler.
Tick ==
    /\ pc = "compile_wait"
    /\ elapsed < timeout
    /\ elapsed' = elapsed + 1
    /\ UNCHANGED <<pc, fs, path, plat, compiler, exe_name, cmd, log, exitCode,
                   stages, probed, launched, children, buildResult, runResult,
                   ran, ncalls, runs, prevCompiler>>

\* Variant: the failure branch returns exe_name too.
compile_returncode_always(rc, p) ==
    IF rc = 0
    THEN [out |-> <<<<"Compilation successful!">>>>, ret |-> platform_exe_name(p)]
    ELSE [out |-> <<<<"Compilation failed!">>, <<"STDOUT">>, <<"STDERR">>>>,
          ret |-> platform_exe_name(p)]

\* Lines 71-78: what compile_project prints and returns for result.returncode.
compile_returncode(rc, p) ==
    IF rc = 0
    THEN [out |-> <<<<"Compilation successful!">>>>, ret |-> platform_exe_name(p)]
    ELSE [out |-> <<<<"Compilation failed!">>, <<"STDOUT">>, <<"STDERR">>>>,
          ret |-> None]

\* The compiler exits with returncode rc before the deadline; wrote tells
\* whether a compiler that exited 0 left its output file behind.
CompileExit ==
    /\ pc = "compile_wait"
    /\ elapsed < timeout
    /\ \E rc \in RetCodes, wrote \in BOOLEAN :
        /\ children' = children \ {"compiler"}
        /\ IF rc = 0
           THEN /\ fs' = IF wrote THEN [fs EXCEPT ![OutputOf(cmd)] = "fresh"] ELSE fs
                /\ buildResult' = "zero"
           ELSE /\ wrote = FALSE
                /\ fs' = fs
                /\ buildResult' = "nonzero"
        /\ LET r == compile_returncode(rc, plat) IN
             /\ log' = log \o r.out
             /\ MainAfterCompile(r.ret)
    /\ elapsed' = 0
    /\ UNCHANGED <<path, plat, compiler, cmd, stages, probed, launched,
                   runResult, ran, ncalls, runs, prevCompiler>>

\* The deadline passes: subprocess.run kills the child, waits for it and
\* raises TimeoutExpired.
CompileTimeout ==
    /\ pc = "compile_wait"
    /\ elapsed = timeout
    /\ children' = children \ {"compiler"}
    /\ CompileRaise("TimeoutExpired", log)
    /\ elapsed' = 0
    /\ UNCHANGED <<fs, path, plat, compiler, cmd, stages, probed, launched,
                   runResult, ran, ncalls, runs, prevCompiler>>

----------------------------------------------------------------------------
(* run_executable(exe_name) *)

\* f"./{exe_name}"
DotSlash(exe) ==
    CASE exe = "rideeasy"     -> "./rideeasy"
      [] exe = "rideeasy.exe" -> "./rideeasy.exe"

run_argv(exe, p) == IF p = "Windows" THEN <<exe>> ELSE <<DotSlash(exe)>>

\* The file of the working directory a program path names.
FileOf(program) ==
    CASE program = "./rideeasy"     -> "rideeasy"
      [] program = "./rideeasy.exe" -> "rideeasy.exe"
      [] OTHER                      -> program

\* The except clauses of run_executable.
run_except(exc, rc) ==
    LET h == Handler(run_handlers, exc) IN
    CASE h = "CalledProcessError" ->
            [caught |-> TRUE, out |-> <<<<"Runtime error", rc>>>>]
      [] h = "KeyboardInterrupt" ->
            [caught |-> TRUE, out |-> <<<<"Program interrupted by user">>>>]
      [] h = "Exception" ->
            [caught |-> TRUE, out |-> <<<<"Execution error", exc>>>>]
      [] h = None ->
            [caught |-> FALSE, out |-> <<>>]

\* Variant: main returns 1 unless the artifact exited 0.
MainAfterRun_propagate ==
    /\ pc' = "returned"
    /\ exitCode' = IF runResult' = "zero" THEN 0 ELSE 1

\* main, lines 138-140: run_executable returned; return 0
MainAfterRun ==
    /\ pc' = "returned"
    /\ exitCode' = 0

RunRaise(exc, rc, out) ==
    LET r == run_except(exc, rc) IN
    /\ log' = out \o r.out
    /\ IF r.caught THEN MainAfterRun ELSE MainRaised

\* Lines 89-96 up to the creation of the child: the artifact is started,
\* or cannot be (OSError), which is certain when the file does not exist.
RunSpawn ==
    /\ pc = "run_executable"
    /\ stages' = Append(stages, "Run")
    /\ LET argv == run_argv(exe_name, plat)
           out == Append(log, <<"Running", exe_name>>) IN
       /\ launched' = Append(launched, argv[1])
       /\ \E started \in BOOLEAN :
            IF started /\ exists(fs, FileOf(argv[1]))
            THEN /\ children' = children \cup {"artifact"}
                 /\ ran' = fs[FileOf(argv[1])]
                 /\ log' = out
                 /\ pc' = "run_wait"
                 /\ UNCHANGED <<exitCode, runResult>>
            ELSE /\ started = FALSE
                 /\ runResult' = "OSError"
                 /\ RunRaise("OSError", -1, out)
                 /\ UNCHANGED <<children, ran>>
    /\ UNCHANGED <<fs, path, plat, compiler, exe_name, cmd, probed, elapsed,
                   buildResult, ncalls, runs, prevCompiler>>

\* The artifact exits with returncode rc; check=True turns a non-zero
\* one into CalledProcessError.
RunExit ==
    /\ pc = "run_wait"
    /\ \E rc \in RetCodes :
        /\ children' = children \ {"artifact"}
        /\ IF rc = 0
           THEN /\ runResult' = "zero"
                /\ log' = Append(log, <<"Program executed successfully!">>)
                /\ MainAfterRun
           ELSE /\ runResult' = "nonzero"
                /\ RunRaise("CalledProcessError", rc, log)
    /\ UNCHANGED <<fs, path, plat, compiler, exe_name, cmd, stages, probed,
                   launched, elapsed, buildResult, ran, ncalls, runs,
                   prevCompiler>>

\* The operator interrupts the session while the artifact runs:
\* subprocess.run kills the child, waits for it and re-raises
\* KeyboardInterrupt.
RunInterrupt ==
    /\ pc = "run_wait"
    /\ children' = children \ {"artifact"}
    /\ runResult' = "KeyboardInterrupt"
    /\ RunRaise("KeyboardInterrupt", -1, log)
    /\ UNCHANGED <<fs, path, plat, compiler, exe_name, cmd, stages, probed,
                   launched, elapsed, buildResult, ran, ncalls, runs,
                   prevCompiler>>

----------------------------------------------------------------------------
(* The script as a whole *)

\* sys.exit(main()) ended the process; the operator invokes the script
\* again on the same host.  What the earlier process wrote is now stale.
Restart ==
    /\ pc \in {"returned", "raised"}
    /\ runs < MaxRuns
    /\ runs' = runs + 1
    /\ fs' = [f \in FileNames |-> IF fs[f] = "fresh" THEN "stale" ELSE fs[f]]
    /\ prevCompiler' = IF "Resolver" \in Range(stages) THEN compiler
                                                        ELSE prevCompiler
    /\ pc' = "main"
    /\ compiler' = None
    /\ exe_name' = None
    /\ cmd' = <<>>
    /\ log' = <<>>
    /\ exitCode' = None
    /\ stages' = <<>>
    /\ probed' = <<>>
    /\ launched' = <<>>
    /\ children' = {}
    /\ elapsed' = 0
    /\ buildResult' = "none"
    /\ runResult' = "none"
    /\ ran' = "absent"
    /\ ncalls' = 0
    /\ UNCHANGED <<path, plat>>

\* A host: any subset of the known files is in the working directory, any
\* subset of the candidate compilers is on the search path.
Host ==
    /\ fs \in [FileNames -> {"absent", "stale"}]
    /\ path \in SUBSET Range(compilers)
    /\ plat \in Platforms

Fresh ==
    /\ compiler = None
    /\ exe_name = None
    /\ cmd = <<>>
    /\ log = <<>>
    /\ exitCode = None
    /\ stages = <<>>
    /\ probed = <<>>
    /\ launched = <<>>
    /\ children = {}
    /\ elapsed = 0
    /\ buildResult = "none"
    /\ runResult = "none"
    /\ ran = "absent"
    /\ ncalls = 0
    /\ runs = 1
    /\ prevCompiler = "unset"

Init ==
    /\ Host
    /\ Fresh
    /\ pc = "main"

Next ==
    \/ Preflight
    \/ CleanBuild
    \/ CheckCompiler
    \/ CompileSpawn
    \/ Tick
    \/ CompileExit
    \/ CompileTimeout
    \/ RunSpawn
    \/ RunExit
    \/ RunInterrupt
    \/ Restart

Spec == Init /\ [][Next]_vars

----------------------------------------------------------------------------
(* clean_build() on its own, called repeatedly on one directory *)

CleanOnly ==
    /\ pc = "clean_only"
    /\ ncalls < MaxCleanCalls
    /\ LET r == clean_build(fs, log) IN
         /\ fs' = r.fs
         /\ log' = r.log
    /\ ncalls' = ncalls + 1
    /\ UNCHANGED <<pc, path, plat, compiler, exe_name, cmd, exitCode, stages,
                   probed, launched, children, elapsed, buildResult,
                   runResult, ran, runs, prevCompiler>>

InitClean ==
    /\ Host
    /\ Fresh
    /\ pc = "clean_only"

NextClean == CleanOnly

SpecClean == InitClean /\ [][NextClean]_vars

----------------------------------------------------------------------------
(* Properties *)

Artifacts == Range(files_to_remove)

Entered(stage) == stage \in Range(stages)

\* A line of the given kind was printed by this process.
Printed(kind) == \E i \in DOMAIN log : log[i][1] = kind

\* What the host decides for each stage.
AbsentRequired == {f \in Range(required_files) : fs[f] = "absent"}

PreflightOK == AbsentRequired = {}

ResolverOK == path \cap Range(compilers) # {}

BuildOK == buildResult = "zero"

BuildFailures == {"nonzero", "TimeoutExpired", "OSError"}

PreflightFailed == Entered("Preflight") /\ ~PreflightOK

ResolverFailed == Entered("Resolver") /\ ~ResolverOK

BuildFailed == buildResult \in BuildFailures

\* C1: main() returns 0 exactly when Preflight, the Resolver and the Build
\* stage all succeeded, whatever the Run stage's outcome, returns 1 exactly
\* when one of the three failed, and never ends any other way.
C1_ExitCode ==
    /\ pc # "raised"
    /\ pc = "returned" =>
         /\ exitCode \in {0, 1}
         /\ exitCode = 0 <=> (PreflightOK /\ ResolverOK /\ BuildOK)
         /\ exitCode = 1 <=> (PreflightFailed \/ ResolverFailed \/ BuildFailed)
    /\ runResult # "none" => (pc = "returned" /\ exitCode = 0)

\* C1 witness: the operator interrupted the artifact and main returned 0.
C1_Witness ==
    /\ pc = "returned"
    /\ exitCode = 0
    /\ runResult = "KeyboardInterrupt"

PosRequired(f) == CHOOSE i \in DOMAIN required_files : required_files[i] = f

InRequiredOrder(r) ==
    \A i, j \in DOMAIN r : i < j => PosRequired(r[i]) < PosRequired(r[j])

\* C2: when a required file is absent the run ends at Preflight: the one
\* line printed lists exactly the absent required names in the required
\* order, main returns 1, and nothing was cleaned, probed or spawned.
C2_MissingSources ==
    ~PreflightOK =>
        /\ pc \in {"main", "returned"}
        /\ probed = <<>>
        /\ launched = <<>>
        /\ children = {}
        /\ ncalls = 0
        /\ pc = "returned" =>
             /\ exitCode = 1
             /\ stages = <<"Preflight">>
             /\ Len(log) = 1
             /\ log[1][1] = "Missing required files"
             /\ Range(log[1][2]) = AbsentRequired
             /\ InRequiredOrder(log[1][2])

\* C2 witness: two of the three required files are absent and main returned.
C2_Witness ==
    /\ pc = "returned"
    /\ Cardinality(AbsentRequired) = 2
    /\ fs["User.h"] # "absent"

\* C3: with all required files present and no candidate compiler on the
\* path, the run ends at the Resolver with NoCompilerFound and exit code 1;
\* no child process is ever spawned and neither Build nor Run is entered.
C3_NoCompilerFound ==
    (PreflightOK /\ ~ResolverOK) =>
        /\ launched = <<>>
        /\ children = {}
        /\ buildResult = "none"
        /\ runResult = "none"
        /\ ~Entered("Build")
        /\ ~Entered("Run")
        /\ pc \in {"main", "clean_build", "check_compiler", "returned"}
        /\ Entered("Resolver") =>
             /\ pc = "returned"
             /\ exitCode = 1
             /\ compiler = None
             /\ Printed("No C++ compiler found!")

\* C3 witness: the Resolver ran on a host with no compiler.
C3_Witness ==
    /\ PreflightOK
    /\ ~ResolverOK
    /\ Entered("Resolver")
    /\ pc = "returned"

StageOrder == <<"Preflight", "Clean", "Resolver", "Build", "Run">>

IsPrefix(s, t) ==
    /\ Len(s) <= Len(t)
    /\ \A i \in DOMAIN s : s[i] = t[i]

\* C4: within one run the stages are entered at most once each, in the
\* order Preflight, Clean, Resolver, Build, Run; a failed stage ends the
\* run; Run is entered only after the compiler exited 0, never after
\* CompilationFailed, CompilationTimedOut or CompilerInvocationError.
C4_ShortCircuit ==
    /\ IsPrefix(stages, StageOrder)
    /\ Len(launched) <= 2
    /\ (PreflightFailed \/ ResolverFailed \/ BuildFailed) =>
         /\ pc = "returned"
         /\ ~Entered("Run")
         /\ runResult = "none"
    /\ PreflightFailed => stages = <<"Preflight">>
    /\ ResolverFailed => stages = <<"Preflight", "Clean", "Resolver">>
    /\ (Entered("Run") \/ pc = "run_executable") => BuildOK
    /\ Len(launched) = 2 => (BuildOK /\ launched[1] = compiler)

\* C4 witness: the compiler exited non-zero and the run ended after Build.
C4_Witness ==
    /\ buildResult = "nonzero"
    /\ pc = "returned"
    /\ stages = <<"Preflight", "Clean", "Resolver", "Build">>

\* C5: when the compiler is invoked no known artifact name exists in the
\* working directory, and an artifact the Run stage executes was written by
\* this run's compilation.
C5_NoStaleArtifact ==
    /\ pc \in {"compile_project", "compile_wait"} =>
         \A a \in Artifacts : fs[a] = "absent"
    /\ "artifact" \in children => ran = "fresh"
    /\ ran \in {"absent", "fresh"}
    /\ Entered("Clean") => \A a \in Artifacts : fs[a] # "stale"

\* C5 witness: stale artifacts were removed and the artifact now running is
\* the one this run compiled.
C5_Witness ==
    /\ pc = "run_wait"
    /\ Printed("Cleaned")
    /\ ran = "fresh"
    /\ runs = 2

\* C6: when the compiler child is still running at the deadline, the
\* Build stage ends with CompilationTimedOut: the child is killed and
\* reaped, main returns 1 and the Run stage is not started.  At most one
\* child process is alive at any time.
C6_Timeout ==
    /\ [](Cardinality(children) <= 1)
    /\ [](buildResult = "TimeoutExpired" =>
            /\ children = {}
            /\ pc = "returned"
            /\ exitCode = 1
            /\ Printed("Compilation timed out!")
            /\ ~Printed("Compilation error")
            /\ launched = <<compiler>>
            /\ ~Entered("Run"))
    /\ [][(pc = "compile_wait" /\ elapsed = timeout) =>
            /\ buildResult' = "TimeoutExpired"
            /\ "compiler" \in children
            /\ children' = {}
            /\ pc' = "returned"]_vars

\* C6 witness: the compiler ran into the deadline and the run has ended.
C6_Witness ==
    /\ buildResult = "TimeoutExpired"
    /\ pc = "returned"
    /\ children = {}

\* C7: every failure of the taxonomy is reported with its diagnostic and
\* main returns normally with an exit code; no exception leaves main.  An
\* operator interrupt while the artifact runs is caught and reported.
C7_NoUnhandledFault ==
    /\ pc # "raised"
    /\ PreflightFailed =>
         (pc = "returned" /\ exitCode = 1 /\ Printed("Missing required files"))
    /\ ResolverFailed =>
         (pc = "returned" /\ exitCode = 1 /\ Printed("No C++ compiler found!"))
    /\ buildResult = "nonzero" =>
         (pc = "returned" /\ exitCode = 1 /\ Printed("Compilation failed!"))
    /\ buildResult = "TimeoutExpired" =>
         (pc = "returned" /\ exitCode = 1 /\ Printed("Compilation timed out!"))
    /\ buildResult = "OSError" =>
         (pc = "returned" /\ exitCode = 1 /\ Printed("Compilation error"))
    /\ runResult = "nonzero" =>
         (pc = "returned" /\ exitCode = 0 /\ Printed("Runtime error"))
    /\ runResult = "KeyboardInterrupt" =>
         /\ pc = "returned"
         /\ exitCode = 0
         /\ children = {}
         /\ Printed("Program interrupted by user")
    /\ runResult = "OSError" =>
         (pc = "returned" /\ exitCode = 0 /\ Printed("Execution error"))

\* C7 witness: the operator interrupted the running artifact.
C7_Witness ==
    /\ runResult = "KeyboardInterrupt"
    /\ Printed("Program interrupted by user")
    /\ pc = "returned"

HasStaticFlags(c) == \E i \in DOMAIN c : c[i] \in Range(static_flags)

\* C8: the build command carries the static-linking flags exactly when the
\* platform is Windows and the resolved compiler is g++; for every other
\* pair, clang++ on Windows included, the command ends at the output path.
C8_StaticFlags ==
    cmd # <<>> =>
        /\ HasStaticFlags(cmd) <=> (plat = "Windows" /\ compiler = "g++")
        /\ ~(plat = "Windows" /\ compiler = "g++") =>
              cmd[Len(cmd)] = platform_exe_name(plat)

\* C9: the Resolver returns g++ whenever g++ is on the path, clang++ only
\* when g++ is absent and clang++ present, and reports NoCompilerFound
\* exactly when neither is; a later run on the same host resolves the same
\* compiler.
C9_Resolver ==
    Entered("Resolver") =>
        /\ "g++" \in path => compiler = "g++"
        /\ ("g++" \notin path /\ "clang++" \in path) => compiler = "clang++"
        /\ compiler = None <=> (path \cap {"g++", "clang++"} = {})
        /\ Printed("No C++ compiler found!") <=> (path \cap {"g++", "clang++"} = {})
        /\ compiler # None =>
              \E i \in DOMAIN log : /\ log[i][1] = "Found compiler"
                                    /\ log[i][2] = compiler
        /\ compiler # None => probed[Len(probed)] = compiler
        /\ prevCompiler # "unset" => compiler = prevCompiler

\* C9 witness: both candidates are on the path and the second run resolved
\* g++ as the first did.
C9_Witness ==
    /\ runs = 2
    /\ Entered("Resolver")
    /\ path = {"g++", "clang++"}
    /\ compiler = "g++"
    /\ prevCompiler = "g++"

\* C10: a call of clean_build removes every artifact name that is present,
\* prints one line per file removed and nothing else, and leaves the other
\* files alone; a second call right after it deletes nothing and prints
\* nothing.
C10_CleanIdempotent ==
    [][(ncalls' = ncalls + 1) =>
         /\ \A a \in Artifacts : fs'[a] = "absent"
         /\ \A f \in FileNames \ Artifacts : fs'[f] = fs[f]
         /\ SubSeq(log', 1, Len(log)) = log
         /\ Len(log') - Len(log) = Cardinality({a \in Artifacts : fs[a] # "absent"})
         /\ \A a \in Artifacts :
              fs[a] # "absent" <=>
                 \E i \in (Len(log) + 1)..Len(log') : log'[i] = <<"Cleaned", a>>
         /\ ncalls >= 1 => (fs' = fs /\ log' = log)]_vars

\* C10 witness: all three artifacts were removed by the first call and a
\* second call was made.
C10_Witness ==
    /\ pc = "clean_only"
    /\ ncalls = 2
    /\ Len(log) = 3

====
